---- MODULE Spec2Model ----
(***************************************************************************)
(* Model of the visionocr OCR pipeline.                                    *)
(*                                                                         *)
(* The serverless OCR handler (supabase function ocr-process) is modelled  *)
(* as a state machine that handles one HTTP request at a time.  The        *)
(* handler is an async function: it runs to its first await (the auth      *)
(* service's getUser), resumes when that returns, runs to its second await *)
(* (the fetch of the AI gateway) and resumes when that returns.  Each of   *)
(* these three stretches of code is one action.                            *)
(*                                                                         *)
(* Strings whose characters the code inspects (fileType, the extracted     *)
(* text) are sequences of one-character strings.  imageBase64 is           *)
(* represented by what the handler observes of it: whether it is present,  *)
(* its length, and whether it starts with "data:".                         *)
(***************************************************************************)
EXTENDS Integers, Sequences, FiniteSets, TLC

VARIABLES
    pc,            \* position of the handler: "idle", "received", "awaitAuth", "awaitGateway", "done"
    payload,       \* the request: method, body parse outcome and the OCRRequest fields
    env,           \* the function's environment: whether LOVABLE_API_KEY is set
    resp,          \* the Response returned for the request (NoResponse while none)
    authCalls,     \* calls of supabaseAdmin.auth.getUser made for the request
    gatewayCalls,  \* fetches of the AI gateway made for the request
    gatewayReq,    \* what the gateway fetch carried (prompt pair, image URL)
    authResult,    \* what getUser resolved to (NoAuthResult while it has not)
    upstream,      \* what the AI gateway answered (NoUpstream while it has not)
    \* the client's OCR engine (services/ocrEngine.ts), one processDocument call at a time
    epc,           \* position of the call: "idle", "reading", "session", "posted", "lost", "settled"
    call,          \* the arguments of processDocument and the mode it detected
    session,       \* what supabase.auth.getSession() gives
    sent,          \* the request invokeOcrProcess handed to fetch (NoRequest while none)
    posts,         \* POSTs to the OCR function made during the call
    outcome,       \* how processDocument ended: a result or a thrown Error
    \* the Index page (pages/Index.tsx) and the relational store behind it
    user,          \* whether useAuth() gives a user
    ocrStatus,     \* the ProcessingStatus in the state "status" of the page
    extractedText, \* the text shown in the results panel
    history,       \* HistoryItem[] of the sidebar
    selectedHistoryId, \* id of the selected item, 0 for undefined
    runs,          \* the invocations of handleOCRProcessing: position, document id, result
    pendingDelete, \* the handleHistoryDelete awaiting the store, and the error of the last one
    fetching,      \* the fetchHistory awaiting the store and the rows it will bring
    documents,     \* table documents: status of each row by id
    ocr_results,   \* table ocr_results: the rows of each document id
    statusWrites,  \* the updates of documents.status the client issued, by document id
    \* the storage bucket "documents" under its row-level security policies
    objects,       \* rows of storage.objects
    lastOp         \* the last statement a user ran on storage.objects and the rows it touched

vars == <<pc, payload, env, resp, authCalls, gatewayCalls, gatewayReq, authResult, upstream>>

engineVars == <<epc, call, session, sent, posts, outcome>>

storageVars == <<objects, lastOp>>

pageVars == <<user, ocrStatus, extractedText, history, selectedHistoryId, runs,
              pendingDelete, fetching, documents, ocr_results, statusWrites>>

----------------------------------------------------------------------------
(* Bounds of the model *)

\* longest extracted text the gateway returns
MaxTextLen == 3

\* invocations of handleOCRProcessing on the page
MaxRuns == 2

\* largest value of Date.now() - startTime, in ms
MaxElapsed == 1

----------------------------------------------------------------------------
(* Characters and strings *)

Whitespace == {" ", "\n"}

\* characters of the texts the AI gateway returns
TextAlphabet == {"a"} \cup Whitespace

RECURSIVE SeqsUpTo(_, _)
SeqsUpTo(S, n) ==
    IF n = 0 THEN {<<>>}
    ELSE LET shorter == SeqsUpTo(S, n - 1)
         IN  shorter \cup {Append(s, c) : s \in {t \in shorter : Len(t) = n - 1}, c \in S}

Texts == SeqsUpTo(TextAlphabet, MaxTextLen)

UpperCase == <<"A","B","C","D","E","F","G","H","I","J","K","L","M",
               "N","O","P","Q","R","S","T","U","V","W","X","Y","Z">>
LowerCase == <<"a","b","c","d","e","f","g","h","i","j","k","l","m",
               "n","o","p","q","r","s","t","u","v","w","x","y","z">>

toLowerCaseChar(c) ==
    IF \E i \in 1..Len(UpperCase) : UpperCase[i] = c
    THEN LowerCase[CHOOSE i \in 1..Len(UpperCase) : UpperCase[i] = c]
    ELSE c

\* String.prototype.toLowerCase
toLowerCase(s) == [i \in 1..Len(s) |-> toLowerCaseChar(s[i])]

\* String.prototype.trim: drops leading and trailing whitespace
RECURSIVE trimStart(_)
trimStart(s) ==
    IF s = <<>> THEN <<>>
    ELSE IF Head(s) \in Whitespace THEN trimStart(Tail(s)) ELSE s

RECURSIVE trimEnd(_)
trimEnd(s) ==
    IF s = <<>> THEN <<>>
    ELSE IF s[Len(s)] \in Whitespace THEN trimEnd(SubSeq(s, 1, Len(s) - 1)) ELSE s

trim(s) == trimEnd(trimStart(s))

\* s.split(/\s+/): cuts s at every maximal run of whitespace; a run at the
\* start or the end of s leaves an empty string there, and "" splits to [""].
\* cur is the piece being read, inRun whether the previous character was whitespace.
RECURSIVE splitFrom(_, _, _)
splitFrom(s, cur, inRun) ==
    IF s = <<>> THEN <<cur>>
    ELSE IF Head(s) \in Whitespace
         THEN IF inRun THEN splitFrom(Tail(s), cur, TRUE)
                       ELSE <<cur>> \o splitFrom(Tail(s), <<>>, TRUE)
         ELSE splitFrom(Tail(s), Append(cur, Head(s)), FALSE)

splitWhitespace(s) == splitFrom(s, <<>>, FALSE)

\* .filter(Boolean) on an array of strings: keeps the non-empty ones
filterBoolean(arr) == SelectSeq(arr, LAMBDA w : w # <<>>)

----------------------------------------------------------------------------
(* Values of the request and of the two external services *)

\* a string-valued field of the JSON body that may be absent (undefined)
Absent == [present |-> FALSE, value |-> ""]
Str(v) == [present |-> TRUE, value |-> v]

\* fileType is a sequence of characters, so that toLowerCase acts on it
AbsentType == [present |-> FALSE, value |-> <<>>]
Mime(v) == [present |-> TRUE, value |-> v]

image_png       == <<"i","m","a","g","e","/","p","n","g">>
image_jpeg      == <<"i","m","a","g","e","/","j","p","e","g">>
image_jpg       == <<"i","m","a","g","e","/","j","p","g">>
image_webp      == <<"i","m","a","g","e","/","w","e","b","p">>
image_gif       == <<"i","m","a","g","e","/","g","i","f">>
application_pdf == <<"a","p","p","l","i","c","a","t","i","o","n","/","p","d","f">>
IMAGE_PNG       == <<"I","M","A","G","E","/","P","N","G">>
Image_Jpeg      == <<"I","m","a","g","e","/","J","p","e","g">>
image_bmp       == <<"i","m","a","g","e","/","b","m","p">>
text_plain      == <<"t","e","x","t","/","p","l","a","i","n">>

FileTypeInputs ==
    {AbsentType, Mime(<<>>)} \cup
    {Mime(t) : t \in {image_png, image_jpeg, image_jpg, image_webp, image_gif,
                      application_pdf, IMAGE_PNG, Image_Jpeg, image_bmp, text_plain}}

\* imageBase64 by what the handler reads of it: truthiness, .length, startsWith("data:")
AbsentImage == [present |-> FALSE, length |-> 0, startsWithData |-> FALSE]
Image(n, d) == [present |-> TRUE, length |-> n, startsWithData |-> d]

\* lengths around the limit: 13981013 * 3 / 4 = 10485759.75, 13981014 * 3 / 4 = 10485760.5
ImageInputs ==
    {AbsentImage, Image(0, FALSE), Image(4, FALSE), Image(26, TRUE),
     Image(10485761, FALSE), Image(13981013, FALSE), Image(13981014, FALSE),
     Image(13981014, TRUE), Image(20000000, FALSE)}

TokenInputs == {Absent, Str(""), Str("jwt")}

ModeInputs == {Absent, Str("printed"), Str("handwriting"), Str("mixed"), Str("other")}

\* a preflight request or a body that is not JSON carries no fields
BlankFields ==
    [userAccessToken |-> Absent, imageBase64 |-> AbsentImage,
     fileType |-> AbsentType, mode |-> Absent]

Payload(method, jsonOk, f) ==
    [method |-> method, jsonOk |-> jsonOk,
     userAccessToken |-> f.userAccessToken, imageBase64 |-> f.imageBase64,
     fileType |-> f.fileType, mode |-> f.mode]

PayloadInputs ==
    {Payload("OPTIONS", FALSE, BlankFields), Payload("POST", FALSE, BlankFields)} \cup
    {Payload("POST", TRUE, f) :
        f \in [userAccessToken : TokenInputs, imageBase64 : ImageInputs,
               fileType : FileTypeInputs, mode : ModeInputs]}

EnvInputs == [LOVABLE_API_KEY : BOOLEAN]

\* what supabaseAdmin.auth.getUser resolves to: { data: { user }, error }
NoUser == "null"
AuthResults == [user : {NoUser, "user-1"}, error : BOOLEAN]
NoAuthResult == [returned |-> FALSE, user |-> NoUser, error |-> FALSE]
Returned(r) == [returned |-> TRUE, user |-> r.user, error |-> r.error]

\* what the fetch of the AI gateway gives: a rejected promise (network error),
\* or a response with a status whose body may fail to parse, may lack
\* choices[0].message.content, or carries a text
GatewayStatuses == {200, 201, 400, 402, 429, 500}

Upstream(kind, status, jsonOk, hasContent, content) ==
    [kind |-> kind, status |-> status, jsonOk |-> jsonOk,
     hasContent |-> hasContent, content |-> content]

GatewayOutcomes ==
    {Upstream("networkError", 0, FALSE, FALSE, <<>>)} \cup
    {Upstream("response", s, FALSE, FALSE, <<>>) : s \in GatewayStatuses \ {200}} \cup
    {Upstream("response", 200, FALSE, FALSE, <<>>),
     Upstream("response", 200, TRUE, FALSE, <<>>)} \cup
    {Upstream("response", 200, TRUE, TRUE, t) : t \in Texts} \cup
    {Upstream("response", 201, TRUE, TRUE, <<"a">>)}

NoUpstream == Upstream("none", 0, FALSE, FALSE, <<>>)

NoGatewayReq == [prompt |-> "none", prefixAdded |-> FALSE, mimeType |-> <<>>]

\* Response objects
EmptyBody == [f \in {} |-> ""]
NoResponse == [status |-> 0, contentType |-> "none", body |-> EmptyBody]

\* new Response(JSON.stringify(body), { status, headers: { ...corsHeaders, "Content-Type": "application/json" } })
JsonResponse(status, body) ==
    [status |-> status, contentType |-> "application/json", body |-> body]

\* new Response(null, { headers: corsHeaders }): status defaults to 200
PreflightResponse == [status |-> 200, contentType |-> "none", body |-> EmptyBody]

----------------------------------------------------------------------------
(* The handler's checks and computations *)

\* if (!userAccessToken): undefined and "" are both falsy
hasUserAccessToken_NoCheck(p) == TRUE
hasUserAccessToken(p) == p.userAccessToken.present /\ p.userAccessToken.value # ""

\* if (authError || !user)
authRejected_ErrorOnly(r) == r.error
authRejected(r) == r.error \/ r.user = NoUser

\* if (!imageBase64)
missingImage_UndefinedOnly(img) == ~img.present
missingImage(img) == ~img.present \/ img.length = 0

MAX_SIZE_MB == 10
MAX_SIZE_BYTES == MAX_SIZE_MB * 1024 * 1024

\* estimatedSize = (imageBase64.length * 3) / 4 is a fraction in general;
\* estimatedSize > MAX_SIZE_BYTES is compared here with both sides times 4
tooLarge_Truncated(img) == (img.length * 3) \div 4 > MAX_SIZE_BYTES
tooLarge(img) == img.length * 3 > MAX_SIZE_BYTES * 4

allowedTypes_WithBmp ==
    {image_png, image_jpeg, image_jpg, image_webp, image_gif, application_pdf, image_bmp}
allowedTypes ==
    {image_png, image_jpeg, image_jpg, image_webp, image_gif, application_pdf}

\* if (fileType && !allowedTypes.includes(fileType.toLowerCase()))
typeRejected_Skipped(fileType) == FALSE
typeRejected_EmptyToo(fileType) ==
    \/ ~fileType.present
    \/ toLowerCase(fileType.value) \notin allowedTypes
typeRejected(fileType) ==
    /\ fileType.present
    /\ fileType.value # <<>>
    /\ toLowerCase(fileType.value) \notin allowedTypes

\* const { ..., mode = "mixed" } = payload: the default replaces undefined only
modeOf(p) == IF p.mode.present THEN p.mode.value ELSE "mixed"

\* switch (mode): the prompt pair, named by the mode it is written for
promptFor(mode) ==
    CASE mode = "printed"     -> "printed"
      [] mode = "handwriting" -> "handwriting"
      [] OTHER                -> "mixed"

\* imageUrl: imageBase64 itself when it starts with "data:", else
\* `data:${fileType || "image/png"};base64,${imageBase64}`
gatewayRequest(p) ==
    [prompt |-> promptFor(modeOf(p)),
     prefixAdded |-> ~p.imageBase64.startsWithData,
     mimeType |-> IF p.imageBase64.startsWithData THEN <<>>
                  ELSE IF p.fileType.present /\ p.fileType.value # <<>>
                       THEN p.fileType.value ELSE image_png]

\* response.ok
ok(status) == status \in 200..299

\* data.choices?.[0]?.message?.content || ""
extractedTextOf(u) == IF u.hasContent THEN u.content ELSE <<>>

\* if (!extractedText.trim())
noTextExtracted_NoTrim(text) == text = <<>>
noTextExtracted(text) == trim(text) = <<>>

\* words = extractedText.split(/\s+/).filter(Boolean); word_count = words.length
wordCount_NoFilter(text) == Len(splitWhitespace(text))
wordCount(text) == Len(filterBoolean(splitWhitespace(text)))

\* character_count = extractedText.length
characterCount(text) == Len(text)

confidenceNote(mode) ==
    IF mode = "handwriting"
    THEN "Handwriting recognition - accuracy may vary based on writing clarity"
    ELSE "High confidence OCR extraction"

\* the OCRResponse object returned with the default status 200
successBody_NoNote(text, mode, elapsed) ==
    [extracted_text |-> text,
     processing_time_ms |-> elapsed,
     word_count |-> wordCount(text),
     character_count |-> characterCount(text)]
successBody(text, mode, elapsed) ==
    [extracted_text |-> text,
     processing_time_ms |-> elapsed,
     word_count |-> wordCount(text),
     character_count |-> characterCount(text),
     confidence_note |-> confidenceNote(mode)]

\* the catch block: every exception thrown inside try becomes a 500
catchAll_Status400(message, elapsed) ==
    JsonResponse(400, [error |-> message, processing_time_ms |-> elapsed])
catchAll(message, elapsed) ==
    JsonResponse(500, [error |-> message, processing_time_ms |-> elapsed])

\* `AI Gateway error: ${response.status}`
gatewayErrorMessage(status) ==
    CASE status = 400 -> "AI Gateway error: 400"
      [] status = 500 -> "AI Gateway error: 500"
      [] OTHER        -> "AI Gateway error: <status>"

\* if (!response.ok): 429 and 402 are answered with their own status, the rest is thrown
gatewayErrorResponse_402Thrown(status, elapsed) ==
    IF status = 429
    THEN JsonResponse(429, [error |-> "Rate limit exceeded. Please try again in a moment."])
    ELSE catchAll(gatewayErrorMessage(status), elapsed)
gatewayErrorResponse(status, elapsed) ==
    IF status = 429
    THEN JsonResponse(429, [error |-> "Rate limit exceeded. Please try again in a moment."])
    ELSE IF status = 402
    THEN JsonResponse(402, [error |-> "Usage limit reached. Please add credits to continue."])
    ELSE catchAll(gatewayErrorMessage(status), elapsed)

----------------------------------------------------------------------------
(* The handler *)

Init ==
    /\ pc = "idle"
    /\ payload = Payload("OPTIONS", FALSE, BlankFields)
    /\ env = [LOVABLE_API_KEY |-> TRUE]
    /\ resp = NoResponse
    /\ authCalls = 0
    /\ gatewayCalls = 0
    /\ gatewayReq = NoGatewayReq
    /\ authResult = NoAuthResult
    /\ upstream = NoUpstream

\* a request arrives and serve() invokes the handler for it
Request ==
    /\ pc = "idle"
    /\ \E p \in PayloadInputs, e \in EnvInputs :
          /\ payload' = p
          /\ env' = e
    /\ pc' = "received"
    /\ UNCHANGED <<resp, authCalls, gatewayCalls, gatewayReq, authResult, upstream>>

Respond(r) ==
    /\ resp' = r
    /\ pc' = "done"

\* from the entry of the handler to the await of auth.getUser
HandleRequest ==
    /\ pc = "received"
    /\ \E elapsed \in 0..MaxElapsed :
          IF payload.method = "OPTIONS"
          THEN Respond(PreflightResponse) /\ UNCHANGED authCalls
          ELSE IF ~payload.jsonOk
          THEN Respond(catchAll("Unexpected token in JSON", elapsed)) /\ UNCHANGED authCalls
          ELSE IF ~hasUserAccessToken(payload)
          THEN Respond(JsonResponse(401, [error |-> "Authentication required"]))
               /\ UNCHANGED authCalls
          ELSE /\ authCalls' = authCalls + 1
               /\ pc' = "awaitAuth"
               /\ UNCHANGED resp
    /\ UNCHANGED <<payload, env, gatewayCalls, gatewayReq, authResult, upstream>>

\* from the return of auth.getUser to the await of the gateway fetch
AuthReturns ==
    /\ pc = "awaitAuth"
    /\ \E r \in AuthResults, elapsed \in 0..MaxElapsed :
          /\ authResult' = Returned(r)
          /\ IF authRejected(r)
             THEN Respond(JsonResponse(401, [error |-> "Unauthorized"]))
                  /\ UNCHANGED <<gatewayCalls, gatewayReq>>
             ELSE IF ~env.LOVABLE_API_KEY
             THEN Respond(catchAll("LOVABLE_API_KEY is not configured", elapsed))
                  /\ UNCHANGED <<gatewayCalls, gatewayReq>>
             ELSE IF missingImage(payload.imageBase64)
             THEN Respond(JsonResponse(400, [error |-> "No image data provided"]))
                  /\ UNCHANGED <<gatewayCalls, gatewayReq>>
             ELSE IF tooLarge(payload.imageBase64)
             THEN Respond(JsonResponse(400, [error |-> "File too large. Maximum size is 10MB"]))
                  /\ UNCHANGED <<gatewayCalls, gatewayReq>>
             ELSE IF typeRejected(payload.fileType)
             THEN Respond(JsonResponse(400,
                      [error |-> "Invalid file type. Allowed: PNG, JPEG, WebP, GIF, PDF"]))
                  /\ UNCHANGED <<gatewayCalls, gatewayReq>>
             ELSE /\ gatewayReq' = gatewayRequest(payload)
                  /\ gatewayCalls' = gatewayCalls + 1
                  /\ pc' = "awaitGateway"
                  /\ UNCHANGED resp
    /\ UNCHANGED <<payload, env, authCalls, upstream>>

\* from the return of the gateway fetch to the end of the handler
GatewayReturns ==
    /\ pc = "awaitGateway"
    /\ \E u \in GatewayOutcomes, elapsed \in 0..MaxElapsed :
          /\ upstream' = u
          /\ IF u.kind = "networkError"
             THEN Respond(catchAll("error sending request", elapsed))
             ELSE IF ~ok(u.status)
             THEN Respond(gatewayErrorResponse(u.status, elapsed))
             ELSE IF ~u.jsonOk
             THEN Respond(catchAll("Unexpected end of JSON input", elapsed))
             ELSE IF noTextExtracted(extractedTextOf(u))
             THEN Respond(catchAll("No text could be extracted from the image", elapsed))
             ELSE Respond(JsonResponse(200,
                      successBody(extractedTextOf(u), modeOf(payload), elapsed)))
    /\ UNCHANGED <<payload, env, authCalls, gatewayCalls, gatewayReq, authResult>>

\* the Response is sent and the invocation ends; the handler keeps nothing
\* from one request to the next
Return ==
    /\ pc = "done"
    /\ pc' = "idle"
    /\ payload' = Payload("OPTIONS", FALSE, BlankFields)
    /\ env' = [LOVABLE_API_KEY |-> TRUE]
    /\ resp' = NoResponse
    /\ authCalls' = 0
    /\ gatewayCalls' = 0
    /\ gatewayReq' = NoGatewayReq
    /\ authResult' = NoAuthResult
    /\ upstream' = NoUpstream

Next ==
    \/ Request
    \/ Return
    \/ HandleRequest
    \/ AuthReturns
    \/ GatewayReturns

----------------------------------------------------------------------------
(* The client's OCR engine: processDocument and what it calls *)

\* file names, as character sequences
name_scan     == <<"s","c","a","n",".","p","n","g">>
name_Notes    == <<"M","y"," ","N","o","t","e","s",".","P","N","G">>
name_letter   == <<"l","e","t","t","e","r","2",".","p","d","f">>
name_note     == <<"n","o","t","e",".","j","p","g">>
name_DIARY    == <<"D","I","A","R","Y">>

FileNames == {name_scan, name_Notes, name_letter, name_note, name_DIARY}

\* File.type as the browser reports it ("" when it does not know the type)
FileTypes == {application_pdf, image_png, image_bmp, text_plain, <<>>}

\* File.size in bytes: empty, small, the largest the handler accepts, 10 MB
FileSizes == {0, 3, 10485759, 10485760}

Files == [name : FileNames, type : FileTypes, size : FileSizes]

\* the mode argument of processDocument, which may be omitted
CallerModes == {Absent, Str("printed"), Str("handwriting"), Str("mixed")}

NoSession == [present |-> FALSE, access_token |-> ""]
Sessions == {NoSession,
             [present |-> TRUE, access_token |-> ""],
             [present |-> TRUE, access_token |-> "jwt"]}

\* import.meta.env.VITE_SUPABASE_PUBLISHABLE_KEY
anonKey == "publishable-key"

NoCall ==
    [file |-> [name |-> <<>>, type |-> <<>>, size |-> 0], mode |-> Absent,
     detectedMode |-> "", via |-> "none"]

NoRequest ==
    [method |-> "none",
     headers |-> [Authorization |-> <<"", "">>, apikey |-> ""],
     body |-> [imageBase64 |-> AbsentImage, fileName |-> <<>>, fileType |-> <<>>,
               mode |-> "", userAccessToken |-> ""]]

NoOutcome == [kind |-> "none", message |-> "", data |-> EmptyBody]
Result(data) == [kind |-> "result", message |-> "", data |-> data]
Thrown(message) == [kind |-> "thrown", message |-> message, data |-> EmptyBody]

handwritingKeywords ==
    {<<"h","a","n","d","w","r","i","t","t","e","n">>,
     <<"h","a","n","d","w","r","i","t","i","n","g">>,
     <<"n","o","t","e","s">>,
     <<"n","o","t","e","b","o","o","k">>,
     <<"m","a","n","u","s","c","r","i","p","t">>,
     <<"l","e","t","t","e","r">>,
     <<"d","i","a","r","y">>,
     <<"j","o","u","r","n","a","l">>}

\* String.prototype.includes
includes(s, k) ==
    \E i \in 1..(Len(s) - Len(k) + 1) : SubSeq(s, i, i + Len(k) - 1) = k

\* String.prototype.startsWith
startsWith(s, k) == Len(s) >= Len(k) /\ SubSeq(s, 1, Len(k)) = k

isLikelyHandwritten_CaseSensitive(fileName) ==
    \E keyword \in handwritingKeywords : includes(fileName, keyword)
isLikelyHandwritten(fileName) ==
    LET lowerName == toLowerCase(fileName)
    IN  \E keyword \in handwritingKeywords : includes(lowerName, keyword)

\* mode || (isLikelyHandwritten(file.name) ? "handwriting" : "mixed")
detectedModeOf(file, mode) ==
    IF mode.present /\ mode.value # "" THEN mode.value
    ELSE IF isLikelyHandwritten(file.name) THEN "handwriting" ELSE "mixed"

\* which processor processDocument hands the file to
processorOf(file) ==
    IF file.type = application_pdf THEN "processPDF"
    ELSE IF startsWith(file.type, <<"i","m","a","g","e","/">>) THEN "processImage"
    ELSE "unsupported"

\* fileToBase64: readAsDataURL gives "data:<type>;base64,<data>" and split(",")[1]
\* keeps <data>, which has 4 characters for every 3 bytes, padded
fileToBase64(file) == Image(4 * ((file.size + 2) \div 3), FALSE)

\* if (!session?.access_token)
hasAccessToken_NoCheck(sess) == TRUE
hasAccessToken(sess) == sess.present /\ sess.access_token # ""

\* the fetch of `${supabaseUrl}/functions/v1/ocr-process`
ocrRequest(c, sess) ==
    [method |-> "POST",
     headers |-> [Authorization |-> <<"Bearer", anonKey>>, apikey |-> anonKey],
     body |-> [imageBase64 |-> fileToBase64(c.file),
               fileName |-> c.file.name,
               fileType |-> c.file.type,
               mode |-> c.detectedMode,
               userAccessToken |-> sess.access_token]]

\* the handler's view of the request body
payloadOf(request) ==
    Payload(request.method, TRUE,
            [userAccessToken |-> Str(request.body.userAccessToken),
             imageBase64 |-> request.body.imageBase64,
             fileType |-> Mime(request.body.fileType),
             mode |-> Str(request.body.mode)])

\* `HTTP ${response.status}`
httpMessage(status) == "HTTP <status>"

\* invokeOcrProcess after the fetch, and the checks of processImage / processPDF:
\* data = await response.json(); !response.ok gives an Error(data.error || ...),
\* which is thrown, as is a data.error of an ok response; else data is returned
outcomeOf(response) ==
    LET data == response.body
        dataError == IF "error" \in DOMAIN data THEN data.error ELSE ""
    IN  IF ~ok(response.status)
        THEN Thrown(IF dataError # "" THEN dataError ELSE httpMessage(response.status))
        ELSE IF dataError # "" THEN Thrown(dataError)
        ELSE Result(data)

EngineIdle ==
    /\ epc = "idle"
    /\ call = NoCall
    /\ session = NoSession
    /\ sent = NoRequest
    /\ posts = 0
    /\ outcome = NoOutcome

\* handleOCRProcessing's `await processDocument(file, mode)`, up to the await
\* of fileToBase64 or to the throw for an unsupported type
ProcessDocument ==
    /\ epc = "idle"
    /\ \E file \in Files, mode \in CallerModes :
          LET via == processorOf(file)
          IN  /\ call' = [file |-> file, mode |-> mode,
                          detectedMode |-> detectedModeOf(file, mode), via |-> via]
              /\ IF via = "unsupported"
                 THEN /\ outcome' = Thrown("Unsupported file type")
                      /\ epc' = "settled"
                 ELSE /\ epc' = "reading"
                      /\ UNCHANGED outcome
    /\ UNCHANGED <<session, sent, posts>>
    /\ UNCHANGED vars

\* the FileReader finishes: onload resolves, onerror rejects
FileRead ==
    /\ epc = "reading"
    /\ \/ /\ epc' = "session"
          /\ UNCHANGED outcome
       \/ /\ epc' = "settled"
          /\ outcome' = Thrown("read error")
    /\ UNCHANGED <<call, session, sent, posts>>
    /\ UNCHANGED vars

\* invokeOcrProcess from the return of getSession to the await of fetch; the
\* request reaches the OCR function or is lost on the way
InvokeOcrProcess ==
    /\ epc = "session"
    /\ pc = "idle"
    /\ \E sess \in Sessions, e \in EnvInputs, delivered \in BOOLEAN :
          /\ session' = sess
          /\ IF ~hasAccessToken(sess)
             THEN /\ outcome' = Thrown("You must be logged in to use OCR processing")
                  /\ epc' = "settled"
                  /\ UNCHANGED <<sent, posts>>
                  /\ UNCHANGED vars
             ELSE /\ sent' = ocrRequest(call, sess)
                  /\ posts' = posts + 1
                  /\ UNCHANGED outcome
                  /\ IF delivered
                     THEN /\ epc' = "posted"
                          /\ pc' = "received"
                          /\ payload' = payloadOf(ocrRequest(call, sess))
                          /\ env' = e
                          /\ UNCHANGED <<resp, authCalls, gatewayCalls, gatewayReq,
                                         authResult, upstream>>
                     ELSE /\ epc' = "lost"
                          /\ UNCHANGED vars
    /\ UNCHANGED call

\* fetch rejects: the request never reached the function
FetchRejects ==
    /\ epc = "lost"
    /\ outcome' = Thrown("Failed to fetch")
    /\ epc' = "settled"
    /\ UNCHANGED <<call, session, sent, posts>>
    /\ UNCHANGED vars

\* the handler runs for the request (the three stretches of its code)
Serving(A) ==
    /\ epc = "posted"
    /\ A
    /\ UNCHANGED engineVars

\* the response arrives: invokeOcrProcess and processImage / processPDF finish
ResponseArrives_Retry ==
    /\ epc = "posted"
    /\ pc = "done"
    /\ IF outcomeOf(resp).kind = "thrown" /\ posts < 3
       THEN /\ posts' = posts + 1
            /\ UNCHANGED <<epc, outcome>>
       ELSE /\ outcome' = outcomeOf(resp)
            /\ epc' = "settled"
            /\ UNCHANGED posts
    /\ UNCHANGED <<call, session, sent>>
    /\ UNCHANGED vars
ResponseArrives ==
    /\ epc = "posted"
    /\ pc = "done"
    /\ outcome' = outcomeOf(resp)
    /\ epc' = "settled"
    /\ UNCHANGED <<call, session, sent, posts>>
    /\ UNCHANGED vars

\* processDocument has returned or thrown to handleOCRProcessing, which goes
\* on in its try block or in its catch block; neither calls processDocument again
ProcessDocumentSettles ==
    /\ epc = "settled"
    /\ epc' = "idle"
    /\ call' = NoCall
    /\ session' = NoSession
    /\ sent' = NoRequest
    /\ posts' = 0
    /\ outcome' = NoOutcome
    /\ IF pc = "done" THEN Return ELSE UNCHANGED vars

----------------------------------------------------------------------------
(* The Index page: handleOCRProcessing, the history handlers, fetchHistory, *)
(* and the tables documents and ocr_results                                 *)

RunIds == 1..MaxRuns

\* ids the store gives to document rows: one per insert, never reused
DocIds == 1..MaxRuns

\* extracted_text of the results the OCR function returns
ResultTexts == {"text A", "text B"}

NoRun == [pc |-> "none", doc |-> 0, text |-> ""]
NoDelete == [pending |-> FALSE, id |-> 0, selectedHistoryId |-> 0, error |-> FALSE]
NoFetch == [pending |-> FALSE, data |-> <<>>]

\* a HistoryItem, by the fields the page reads
Item(id, text) == [id |-> id, extractedText |-> text]

\* rows of documents that exist
Existing == {d \in DocIds : documents[d] \in {"processing", "completed", "failed"}}

\* the id of the next inserted row
nextDocId == Cardinality({d \in DocIds : documents[d] # "none"}) + 1

\* .order("created_at", { ascending: false }): ids grow with created_at
RECURSIVE newestFirst(_)
newestFirst(ids) ==
    IF ids = {} THEN <<>>
    ELSE LET top == CHOOSE d \in ids : \A e \in ids : e <= d
         IN  <<top>> \o newestFirst(ids \ {top})

\* .limit(10)
FETCH_LIMIT == 10

\* prev.slice(0, 9)
HISTORY_KEEP == 9

\* Array.prototype.slice(0, n)
slice0(arr, n) == SubSeq(arr, 1, IF Len(arr) < n THEN Len(arr) ELSE n)

\* the select of fetchHistory and the map over its rows:
\* extractedText: doc.ocr_results?.[0]?.extracted_text || ""
selectHistory ==
    LET ids == slice0(newestFirst(Existing), FETCH_LIMIT)
    IN  [i \in 1..Len(ids) |->
            Item(ids[i], IF ocr_results[ids[i]] = <<>> THEN ""
                         ELSE ocr_results[ids[i]][1])]

\* supabase.from("documents").update({ status }).eq("id", id): changes the row if it exists
updateStatus(id, st, fails) ==
    IF ~fails /\ id \in Existing THEN [documents EXCEPT ![id] = st] ELSE documents

\* the insert into ocr_results: document_id references documents(id), so the
\* row is refused when the document is gone
insertResult(id, text, fails) ==
    IF ~fails /\ id \in Existing THEN [ocr_results EXCEPT ![id] = Append(@, text)]
    ELSE ocr_results

\* supabase.from("documents").delete().eq("id", id): the row, if it exists, is gone
deleteDocument(id) ==
    IF id \in Existing THEN [documents EXCEPT ![id] = "deleted"] ELSE documents

\* ON DELETE CASCADE of ocr_results.document_id
cascade(id) == [ocr_results EXCEPT ![id] = <<>>]

\* the update as the client issued it, kept for the record
issued(run, id, st) == [statusWrites EXCEPT ![id] = Append(@, [run |-> run, status |-> st])]

\* prev.filter((item) => item.id !== id)
withoutItem(arr, id) == SelectSeq(arr, LAMBDA item : item.id # id)

\* [newItem, ...prev.slice(0, 9)]
prepended_AtEnd(arr, item) == slice0(arr, HISTORY_KEEP) \o <<item>>
prepended(arr, item) == <<item>> \o slice0(arr, HISTORY_KEEP)

PageIdle ==
    /\ ocrStatus = "idle"
    /\ extractedText = ""
    /\ history = <<>>
    /\ selectedHistoryId = 0
    /\ runs = [r \in RunIds |-> NoRun]
    /\ pendingDelete = NoDelete
    /\ fetching = NoFetch
    /\ documents = [d \in DocIds |-> "none"]
    /\ ocr_results = [d \in DocIds |-> <<>>]
    /\ statusWrites = [d \in DocIds |-> <<>>]

PageInit ==
    /\ user \in BOOLEAN
    /\ PageIdle

Unfinished(r) == runs[r].pc \notin {"none", "done"}

\* the UploadZone, rendered only when status is "idle", hands a file to
\* handleFileSelect: handleOCRProcessing up to its first await
StartRun(r) ==
    /\ ocrStatus = "idle"
    /\ runs[r].pc = "none"
    /\ \A q \in RunIds : q < r => runs[q].pc # "none"
    /\ IF ~user
       THEN /\ runs' = [runs EXCEPT ![r].pc = "done"]
            /\ UNCHANGED <<ocrStatus, extractedText, selectedHistoryId>>
       ELSE /\ ocrStatus' = "uploading"
            /\ extractedText' = ""
            /\ selectedHistoryId' = 0
            /\ runs' = [runs EXCEPT ![r].pc = "uploading"]
    /\ UNCHANGED <<user, history, pendingDelete, fetching, documents, ocr_results, statusWrites>>

\* the insert into documents returns: docError ends the run with status "error"
InsertDocument(r) ==
    /\ runs[r].pc = "uploading"
    /\ \E fails \in BOOLEAN :
          IF fails
          THEN /\ ocrStatus' = "error"
               /\ runs' = [runs EXCEPT ![r].pc = "done"]
               /\ UNCHANGED documents
          ELSE /\ documents' = [documents EXCEPT ![nextDocId] = "processing"]
               /\ runs' = [runs EXCEPT ![r].pc = "ocr", ![r].doc = nextDocId]
               /\ ocrStatus' = "processing"
    /\ UNCHANGED <<user, extractedText, history, selectedHistoryId, pendingDelete,
                   fetching, ocr_results, statusWrites>>

\* processDocument returns a result (try goes on to the insert into ocr_results)
\* or throws (catch goes on to the update to "failed")
OcrSettles(r) ==
    /\ runs[r].pc = "ocr"
    /\ \/ \E text \in ResultTexts :
             runs' = [runs EXCEPT ![r].pc = "saving", ![r].text = text]
       \/ runs' = [runs EXCEPT ![r].pc = "failing"]
    /\ UNCHANGED <<user, ocrStatus, extractedText, history, selectedHistoryId,
                   pendingDelete, fetching, documents, ocr_results, statusWrites>>

\* the insert into ocr_results returns; ocrError is only logged
SaveResult_Twice(r) ==
    /\ runs[r].pc = "saving"
    /\ \E fails \in BOOLEAN :
          ocr_results' =
              IF ~fails /\ runs[r].doc \in Existing
              THEN [ocr_results EXCEPT ![runs[r].doc] = @ \o <<runs[r].text, runs[r].text>>]
              ELSE ocr_results
    /\ runs' = [runs EXCEPT ![r].pc = "marking"]
    /\ UNCHANGED <<user, ocrStatus, extractedText, history, selectedHistoryId,
                   pendingDelete, fetching, documents, statusWrites>>
SaveResult(r) ==
    /\ runs[r].pc = "saving"
    /\ \E fails \in BOOLEAN :
          ocr_results' = insertResult(runs[r].doc, runs[r].text, fails)
    /\ runs' = [runs EXCEPT ![r].pc = "marking"]
    /\ UNCHANGED <<user, ocrStatus, extractedText, history, selectedHistoryId,
                   pendingDelete, fetching, documents, statusWrites>>

\* the update to "completed" returns (its error is not read) and the rest of
\* the try block runs
MarkCompleted_ThenCatch(r) ==
    /\ runs[r].pc = "marking"
    /\ \E fails \in BOOLEAN :
          documents' = updateStatus(runs[r].doc, "completed", fails)
    /\ statusWrites' = issued(r, runs[r].doc, "completed")
    /\ extractedText' = runs[r].text
    /\ ocrStatus' = "complete"
    /\ history' = prepended(history, Item(runs[r].doc, runs[r].text))
    /\ selectedHistoryId' = runs[r].doc
    /\ runs' = [runs EXCEPT ![r].pc = "failing"]
    /\ UNCHANGED <<user, pendingDelete, fetching, ocr_results>>
MarkCompleted(r) ==
    /\ runs[r].pc = "marking"
    /\ \E fails \in BOOLEAN :
          documents' = updateStatus(runs[r].doc, "completed", fails)
    /\ statusWrites' = issued(r, runs[r].doc, "completed")
    /\ extractedText' = runs[r].text
    /\ ocrStatus' = "complete"
    /\ history' = prepended(history, Item(runs[r].doc, runs[r].text))
    /\ selectedHistoryId' = runs[r].doc
    /\ runs' = [runs EXCEPT ![r].pc = "done"]
    /\ UNCHANGED <<user, pendingDelete, fetching, ocr_results>>

\* the catch block: the update to "failed" returns (its error is not read)
MarkFailed(r) ==
    /\ runs[r].pc = "failing"
    /\ \E fails \in BOOLEAN :
          documents' = updateStatus(runs[r].doc, "failed", fails)
    /\ statusWrites' = issued(r, runs[r].doc, "failed")
    /\ ocrStatus' = "error"
    /\ runs' = [runs EXCEPT ![r].pc = "done"]
    /\ UNCHANGED <<user, extractedText, history, selectedHistoryId, pendingDelete,
                   fetching, ocr_results>>

\* a click on an item of the sidebar, which is rendered in every status
HistorySelect(i) ==
    /\ i \in 1..Len(history)
    /\ extractedText' = history[i].extractedText
    /\ ocrStatus' = "complete"
    /\ selectedHistoryId' = history[i].id
    /\ UNCHANGED <<user, history, runs, pendingDelete, fetching, documents,
                   ocr_results, statusWrites>>

\* a click on the delete button of an item: handleHistoryDelete up to its
\* await; the callback holds the selectedHistoryId of the render it came from
HistoryDelete(i) ==
    /\ i \in 1..Len(history)
    /\ ~pendingDelete.pending
    /\ pendingDelete' = [pending |-> TRUE, id |-> history[i].id,
                         selectedHistoryId |-> selectedHistoryId, error |-> FALSE]
    /\ UNCHANGED <<user, ocrStatus, extractedText, history, selectedHistoryId, runs,
                   fetching, documents, ocr_results, statusWrites>>

\* the delete returns: on an error nothing but a toast; else the row is gone,
\* its ocr_results rows with it, and the item leaves the list
HistoryDeleteReturns_KeepsItem ==
    /\ pendingDelete.pending
    /\ \E fails \in BOOLEAN :
       /\ pendingDelete' = [NoDelete EXCEPT !.error = fails]
       /\ IF fails
          THEN UNCHANGED <<ocrStatus, extractedText, history, selectedHistoryId,
                           documents, ocr_results>>
          ELSE LET id == pendingDelete.id
               IN  /\ documents' = deleteDocument(id)
                   /\ ocr_results' = cascade(id)
                   /\ history' = history
                   /\ IF pendingDelete.selectedHistoryId = id
                      THEN /\ extractedText' = ""
                           /\ ocrStatus' = "idle"
                           /\ selectedHistoryId' = 0
                      ELSE UNCHANGED <<extractedText, ocrStatus, selectedHistoryId>>
    /\ UNCHANGED <<user, runs, fetching, statusWrites>>
HistoryDeleteReturns_NoReturn ==
    /\ pendingDelete.pending
    /\ \E fails \in BOOLEAN :
       /\ pendingDelete' = [NoDelete EXCEPT !.error = fails]
       /\ LET id == pendingDelete.id
               IN  /\ documents' = IF fails THEN documents ELSE deleteDocument(id)
                   /\ ocr_results' = IF fails THEN ocr_results ELSE cascade(id)
                   /\ history' = withoutItem(history, id)
                   /\ IF pendingDelete.selectedHistoryId = id
                      THEN /\ extractedText' = ""
                           /\ ocrStatus' = "idle"
                           /\ selectedHistoryId' = 0
                      ELSE UNCHANGED <<extractedText, ocrStatus, selectedHistoryId>>
    /\ UNCHANGED <<user, runs, fetching, statusWrites>>
HistoryDeleteReturns ==
    /\ pendingDelete.pending
    /\ \E fails \in BOOLEAN :
       /\ pendingDelete' = [NoDelete EXCEPT !.error = fails]
       /\ IF fails
          THEN UNCHANGED <<ocrStatus, extractedText, history, selectedHistoryId,
                           documents, ocr_results>>
          ELSE LET id == pendingDelete.id
               IN  /\ documents' = deleteDocument(id)
                   /\ ocr_results' = cascade(id)
                   /\ history' = withoutItem(history, id)
                   /\ IF pendingDelete.selectedHistoryId = id
                      THEN /\ extractedText' = ""
                           /\ ocrStatus' = "idle"
                           /\ selectedHistoryId' = 0
                      ELSE UNCHANGED <<extractedText, ocrStatus, selectedHistoryId>>
    /\ UNCHANGED <<user, runs, fetching, statusWrites>>

\* the New Scan button of the results panel or the Try Again button of the
\* error panel
handleNewScan ==
    /\ ocrStatus = "error" \/ (ocrStatus = "complete" /\ extractedText # "")
    /\ ocrStatus' = "idle"
    /\ extractedText' = ""
    /\ selectedHistoryId' = 0
    /\ UNCHANGED <<user, history, runs, pendingDelete, fetching, documents,
                   ocr_results, statusWrites>>

\* fetchHistory up to its await: the store evaluates the select
fetchHistory ==
    /\ user
    /\ ~fetching.pending
    /\ fetching' = [pending |-> TRUE, data |-> selectHistory]
    /\ UNCHANGED <<user, ocrStatus, extractedText, history, selectedHistoryId, runs,
                   pendingDelete, documents, ocr_results, statusWrites>>

\* the select returns: an error leaves the list, data replaces it
fetchHistoryReturns ==
    /\ fetching.pending
    /\ \E fails \in BOOLEAN :
          history' = IF fails THEN history ELSE fetching.data
    /\ fetching' = NoFetch
    /\ UNCHANGED <<user, ocrStatus, extractedText, selectedHistoryId, runs,
                   pendingDelete, documents, ocr_results, statusWrites>>

----------------------------------------------------------------------------
(* The storage bucket for document uploads and its policies *)

\* auth.uid(): the id of the signed-in user, NULL for an anonymous caller
NULL == "NULL"
Uids == {"user-1", "user-2", NULL}

\* the row of storage.buckets
file_size_limit == 10485760
allowed_mime_types == {image_png, image_jpeg, image_webp, image_gif, application_pdf}
Buckets == {"documents", "avatars"}

\* object names: paths, as the sequence of their segments
ObjectNames ==
    {<<"user-1", "a.png">>, <<"user-2", "a.png">>, <<"user-1", "sub", "b.pdf">>,
     <<"user-2", "c.gif">>, <<"a.png">>, <<"sub", "user-1", "a.png">>}

Object(bucket, name) == [bucket_id |-> bucket, name |-> name]

\* storage.foldername(name): the segments of the path without the file name
foldername(name) == SubSeq(name, 1, Len(name) - 1)

\* (storage.foldername(name))[1]: NULL when the path has no folder
firstFolder(name) == IF foldername(name) = <<>> THEN NULL ELSE foldername(name)[1]

\* bucket_id = 'documents' AND auth.uid()::text = (storage.foldername(name))[1];
\* a comparison with NULL is not true
ownsObject_BucketOnly(uid, o) == o.bucket_id = "documents"
ownsObject(uid, o) ==
    /\ o.bucket_id = "documents"
    /\ uid # NULL
    /\ firstFolder(o.name) # NULL
    /\ uid = firstFolder(o.name)

\* "Users can upload their own documents": FOR INSERT WITH CHECK
insertPolicy(uid, o) == ownsObject(uid, o)

\* "Users can view their own documents": FOR SELECT USING
selectPolicy(uid, o) == ownsObject(uid, o)

\* "Users can delete their own documents": FOR DELETE USING
deletePolicy(uid, o) == ownsObject(uid, o)

NoOp == [op |-> "none", uid |-> NULL, rows |-> {}]

StorageIdle ==
    /\ objects = {}
    /\ lastOp = NoOp

\* INSERT INTO storage.objects by a user: the row must pass the policy and the
\* bucket's size and type limits
StorageInsert ==
    \E uid \in Uids, b \in Buckets, name \in ObjectNames,
       size \in {3, file_size_limit, file_size_limit + 1},
       mime \in {image_png, application_pdf, text_plain} :
        LET o == Object(b, name)
            accepted == /\ insertPolicy(uid, o)
                        /\ b = "documents" => (size <= file_size_limit /\ mime \in allowed_mime_types)
                        /\ o \notin objects
        IN  /\ objects' = IF accepted THEN objects \cup {o} ELSE objects
            /\ lastOp' = [op |-> "insert", uid |-> uid,
                          rows |-> IF accepted THEN {o} ELSE {}]

\* SELECT ... FROM storage.objects WHERE bucket_id = b by a user: the rows the policy shows
StorageSelect ==
    \E uid \in Uids, b \in Buckets :
        /\ lastOp' = [op |-> "select", uid |-> uid,
                      rows |-> {o \in objects : o.bucket_id = b /\ selectPolicy(uid, o)}]
        /\ UNCHANGED objects

\* DELETE FROM storage.objects WHERE name = n by a user: the rows the policies
\* let the user see and delete
StorageDelete ==
    \E uid \in Uids, name \in ObjectNames :
        LET gone == {o \in objects : o.name = name /\ selectPolicy(uid, o) /\ deletePolicy(uid, o)}
        IN  /\ objects' = objects \ gone
            /\ lastOp' = [op |-> "delete", uid |-> uid, rows |-> gone]

----------------------------------------------------------------------------
(* Specifications: each runs one part of the system and leaves the rest idle *)

\* the handler alone, serving arbitrary requests
SpecInit == Init /\ EngineIdle /\ user = TRUE /\ PageIdle /\ StorageIdle

Alone(A) == A /\ UNCHANGED <<engineVars, pageVars, storageVars>>

SpecNext ==
    \/ Alone(Request)
    \/ Alone(Return)
    \/ Alone(HandleRequest)
    \/ Alone(AuthReturns)
    \/ Alone(GatewayReturns)

Spec == SpecInit /\ [][SpecNext]_<<vars, engineVars, pageVars, storageVars>>

\* the OCR engine with the handler behind it
EngineInit == Init /\ EngineIdle /\ user = TRUE /\ PageIdle /\ StorageIdle

InEngine(A) == A /\ UNCHANGED <<pageVars, storageVars>>

EngineSpecNext ==
    \/ InEngine(ProcessDocument)
    \/ InEngine(FileRead)
    \/ InEngine(InvokeOcrProcess)
    \/ InEngine(FetchRejects)
    \/ InEngine(Serving(HandleRequest))
    \/ InEngine(Serving(AuthReturns))
    \/ InEngine(Serving(GatewayReturns))
    \/ InEngine(ResponseArrives)
    \/ InEngine(ProcessDocumentSettles)

EngineSpec == EngineInit /\ [][EngineSpecNext]_<<vars, engineVars, pageVars, storageVars>>

\* the page with the store, the OCR engine reduced to its outcome
PageSpecInit == PageInit /\ Init /\ EngineIdle /\ StorageIdle

OnPage(A) == A /\ UNCHANGED <<vars, engineVars, storageVars>>

PageSpecNext ==
    \/ \E r \in RunIds : OnPage(StartRun(r))
    \/ \E r \in RunIds : OnPage(InsertDocument(r))
    \/ \E r \in RunIds : OnPage(OcrSettles(r))
    \/ \E r \in RunIds : OnPage(SaveResult(r))
    \/ \E r \in RunIds : OnPage(MarkCompleted(r))
    \/ \E r \in RunIds : OnPage(MarkFailed(r))
    \/ \E i \in 1..MaxRuns : OnPage(HistorySelect(i))
    \/ \E i \in 1..MaxRuns : OnPage(HistoryDelete(i))
    \/ OnPage(HistoryDeleteReturns)
    \/ OnPage(handleNewScan)
    \/ OnPage(fetchHistory)
    \/ OnPage(fetchHistoryReturns)

PageSpec == PageSpecInit /\ [][PageSpecNext]_<<vars, engineVars, pageVars, storageVars>>

\* the storage bucket
StorageSpecInit == StorageIdle /\ Init /\ EngineIdle /\ user = TRUE /\ PageIdle

InStorage(A) == A /\ UNCHANGED <<vars, engineVars, pageVars>>

StorageSpecNext ==
    \/ InStorage(StorageInsert)
    \/ InStorage(StorageSelect)
    \/ InStorage(StorageDelete)

StorageSpec == StorageSpecInit /\ [][StorageSpecNext]_<<vars, engineVars, pageVars, storageVars>>

----------------------------------------------------------------------------
(* Vocabulary of the properties, stated on the request and the answers of  *)
(* the two services, independently of the handler's own checks             *)

Answered == pc = "done"

\* a POST whose body parsed as a JSON object
PostWithBody == payload.method = "POST" /\ payload.jsonOk

TokenAbsentOrEmpty ==
    ~payload.userAccessToken.present \/ payload.userAccessToken.value = ""

\* getUser returned an error or no user
AuthServiceRefused ==
    authResult.returned /\ (authResult.error \/ authResult.user = NoUser)

\* getUser returned a user and no error
Authenticated ==
    authResult.returned /\ ~authResult.error /\ authResult.user # NoUser

ImageAbsentOrEmpty ==
    ~payload.imageBase64.present \/ payload.imageBase64.length = 0

\* 3/4 of the length exceeds 10 MB = 10485760 bytes, i.e. 3 * length > 41943040
Over10MB == payload.imageBase64.length * 3 > 41943040

ListedMimeTypes ==
    {image_png, image_jpeg, image_jpg, image_webp, image_gif, application_pdf}

\* the fileType is given and, read case-insensitively, is not a listed type
TypeNotListed ==
    /\ payload.fileType.present
    /\ payload.fileType.value # <<>>
    /\ toLowerCase(payload.fileType.value) \notin ListedMimeTypes

GatewayAnswered(status) == upstream.kind = "response" /\ upstream.status = status

AllWhitespace(t) == \A i \in 1..Len(t) : t[i] \in Whitespace

\* the words of t: one starts at every non-whitespace character that is the
\* first of t or follows a whitespace character
WordStarts(t) ==
    {i \in 1..Len(t) : t[i] \notin Whitespace /\ (i = 1 \/ t[i - 1] \in Whitespace)}

HasErrorMessage ==
    /\ resp.contentType = "application/json"
    /\ "error" \in DOMAIN resp.body
    /\ resp.body.error # ""

ResultFields ==
    {"extracted_text", "processing_time_ms", "word_count", "character_count", "confidence_note"}

----------------------------------------------------------------------------
(* Properties *)

\* C1: a POST whose body has no userAccessToken (absent or empty) is answered
\* with 401, and neither the auth service nor the AI gateway is called for it.
C1_MissingTokenIs401 ==
    (PostWithBody /\ TokenAbsentOrEmpty) =>
        /\ authCalls = 0
        /\ gatewayCalls = 0
        /\ Answered => resp.status = 401

C1_Witness ==
    /\ Answered /\ PostWithBody /\ TokenAbsentOrEmpty
    /\ payload.imageBase64.length = 4
    /\ resp.status = 401

\* C2: when the auth service does not accept the token (getUser returns an
\* error or no user) the request is answered with 401 and the AI gateway is
\* not called, whatever the rest of the payload is.
C2_RefusedTokenIs401 ==
    AuthServiceRefused =>
        /\ gatewayCalls = 0
        /\ Answered /\ resp.status = 401

C2_Witness ==
    /\ Answered /\ authResult.returned /\ authResult.user = NoUser /\ ~authResult.error
    /\ payload.imageBase64.length = 4 /\ payload.fileType.value = image_png
    /\ env.LOVABLE_API_KEY
    /\ resp.status = 401

\* C3 as stated: every payload whose estimated decoded size exceeds 10 MB is
\* answered with 400, for every fileType.
C3_AsStated ==
    (Answered /\ PostWithBody /\ payload.imageBase64.present /\ Over10MB) =>
        resp.status = 400

\* C3: an authenticated request, handled with LOVABLE_API_KEY configured,
\* whose estimated decoded size exceeds 10 MB is answered with 400, for every
\* fileType, allowed or not.
C3_OversizeIs400 ==
    (Answered /\ Authenticated /\ env.LOVABLE_API_KEY
        /\ payload.imageBase64.present /\ Over10MB) =>
        resp.status = 400 /\ gatewayCalls = 0

C3_Witness ==
    /\ Answered /\ Authenticated /\ env.LOVABLE_API_KEY
    /\ payload.imageBase64.length = 13981014
    /\ payload.fileType.value = image_png
    /\ resp.status = 400

\* C4 as stated: every request whose fileType is not one of the allowed MIME
\* types is answered with 400.
C4_AsStated ==
    (Answered /\ PostWithBody /\ payload.fileType.present
        /\ payload.fileType.value \notin ListedMimeTypes) =>
        resp.status = 400

\* C4: an authenticated request, handled with LOVABLE_API_KEY configured,
\* whose fileType is non-empty and, lower-cased, is not one of the allowed
\* MIME types is answered with 400.
C4_DisallowedTypeIs400 ==
    (Answered /\ Authenticated /\ env.LOVABLE_API_KEY /\ TypeNotListed) =>
        resp.status = 400 /\ gatewayCalls = 0

C4_Witness ==
    /\ Answered /\ Authenticated /\ env.LOVABLE_API_KEY
    /\ payload.imageBase64.length = 4
    /\ payload.fileType.value = text_plain
    /\ resp.status = 400

\* C5 as stated: every authenticated request with missing or empty
\* imageBase64 is answered with 400 and the AI gateway is not called.
C5_AsStated ==
    (Answered /\ Authenticated /\ ImageAbsentOrEmpty) =>
        resp.status = 400 /\ gatewayCalls = 0

\* C5: an authenticated request with missing or empty imageBase64 is answered
\* with 400 when LOVABLE_API_KEY is configured and with 500 when it is not,
\* and the AI gateway is not called in either case.
C5_MissingImageIs400 ==
    (Authenticated /\ ImageAbsentOrEmpty) =>
        /\ gatewayCalls = 0
        /\ Answered /\ resp.status = IF env.LOVABLE_API_KEY THEN 400 ELSE 500

C5_Witness ==
    /\ Answered /\ Authenticated /\ env.LOVABLE_API_KEY
    /\ payload.imageBase64.present /\ payload.imageBase64.length = 0
    /\ payload.fileType.value = image_png
    /\ resp.status = 400

\* C6: when the AI gateway answers 429 the handler answers 429 with a fixed
\* error message; when the gateway answers 402 the handler answers 402.
C6_RateLimitAndQuotaPassThrough ==
    Answered =>
        /\ GatewayAnswered(429) =>
              /\ resp.status = 429
              /\ HasErrorMessage
              /\ resp.body.error = "Rate limit exceeded. Please try again in a moment."
        /\ GatewayAnswered(402) => resp.status = 402 /\ HasErrorMessage

C6_Witness ==
    Answered /\ GatewayAnswered(429) /\ resp.status = 429 /\ modeOf(payload) = "handwriting"

\* C7: when the AI gateway answers with a non-success status other than 429
\* and 402, or answers successfully with an empty or whitespace-only
\* extraction, the handler answers with 500 and an error message.
C7_OtherGatewayFailureIs500 ==
    (Answered /\ upstream.kind = "response"
        /\ \/ upstream.status \notin 200..299 /\ upstream.status \notin {429, 402}
           \/ /\ upstream.status \in 200..299
              /\ upstream.jsonOk
              /\ ~upstream.hasContent \/ AllWhitespace(upstream.content)) =>
        resp.status = 500 /\ HasErrorMessage

C7_Witness ==
    /\ Answered /\ GatewayAnswered(200) /\ upstream.hasContent
    /\ Len(upstream.content) = 2 /\ AllWhitespace(upstream.content)
    /\ resp.status = 500

\* C8: the result returned for a valid payload carries the text the gateway
\* extracted, a word_count equal to the number of whitespace-separated
\* non-empty words of that text and a character_count equal to its length.
C8_CountsMatchText ==
    (Answered /\ PostWithBody /\ resp.status = 200) =>
        /\ "extracted_text" \in DOMAIN resp.body
        /\ resp.body.extracted_text = upstream.content
        /\ resp.body.word_count = Cardinality(WordStarts(resp.body.extracted_text))
        /\ resp.body.character_count = Len(resp.body.extracted_text)

C8_Witness ==
    /\ Answered /\ PostWithBody /\ resp.status = 200
    /\ resp.body.extracted_text = <<" ", "a", "\n">>
    /\ resp.body.word_count = 1
    /\ resp.body.character_count = 3

\* C9: every failure is answered with the status of its category: 401 for an
\* authentication failure, 400 for a validation failure (missing data, size,
\* type), 402 or 429 when the gateway answered so, and 500 for everything
\* else; and every such answer is JSON with an error message.
C9_StatusByCategory ==
    (Answered /\ payload.method = "POST" /\ resp.status # 200) =>
        /\ HasErrorMessage
        /\ resp.status \in {400, 401, 402, 429, 500}
        /\ resp.status = 401 <=> (PostWithBody /\ (TokenAbsentOrEmpty \/ AuthServiceRefused))
        /\ resp.status = 400 <=>
              /\ Authenticated /\ env.LOVABLE_API_KEY
              /\ ImageAbsentOrEmpty \/ Over10MB \/ TypeNotListed
        /\ resp.status = 429 <=> GatewayAnswered(429)
        /\ resp.status = 402 <=> GatewayAnswered(402)

C9_Witness ==
    /\ Answered /\ payload.method = "POST" /\ resp.status = 500
    /\ upstream.kind = "networkError"
    /\ HasErrorMessage

\* C10 as stated: every JSON response to a POST is an object with exactly the
\* five result fields or an object with exactly the field error.
C10_AsStated ==
    (Answered /\ payload.method = "POST" /\ resp.contentType = "application/json") =>
        \/ DOMAIN resp.body = ResultFields
        \/ DOMAIN resp.body = {"error"}

\* C10: every JSON response to a POST is an object with exactly the five
\* result fields (status 200), or with exactly the field error (status 400,
\* 401, 402, 429), or with exactly the fields error and processing_time_ms
\* (status 500, the catch-all).
C10_ResponseShapes ==
    (Answered /\ payload.method = "POST") =>
        /\ resp.contentType = "application/json"
        /\ \/ resp.status = 200 /\ DOMAIN resp.body = ResultFields
           \/ resp.status \in {400, 401, 402, 429} /\ DOMAIN resp.body = {"error"}
           \/ resp.status = 500 /\ DOMAIN resp.body = {"error", "processing_time_ms"}

C10_Witness ==
    /\ Answered /\ payload.method = "POST" /\ resp.status = 500
    /\ GatewayAnswered(200) /\ ~upstream.hasContent
    /\ DOMAIN resp.body = {"error", "processing_time_ms"}

----------------------------------------------------------------------------
(* Properties of the client's OCR engine, checked under EngineSpec *)

\* C11: no failure is retried: one processDocument call of handleOCRProcessing
\* sends at most one POST to the OCR function, and one handler request makes
\* at most one call to the AI gateway, whatever the outcome of that call.
C11_NoRetry ==
    /\ posts <= 1
    /\ gatewayCalls <= 1
    /\ authCalls <= 1

C11_Witness ==
    /\ epc = "settled" /\ outcome.kind = "thrown"
    /\ posts = 1 /\ gatewayCalls = 1
    /\ GatewayAnswered(500)

\* k occurs in s: at some offset every character of k is the character of s there
Occurs(k, s) ==
    \E off \in 0..(Len(s) - Len(k)) : \A j \in 1..Len(k) : s[off + j] = k[j]

\* C17: processDocument sends the caller's mode when one is given; when none is
\* given it sends "handwriting" if the lower-cased file name contains one of
\* the handwriting keywords and "mixed" otherwise.
C17_ModeSent ==
    posts > 0 =>
        sent.body.mode =
            IF call.mode.present THEN call.mode.value
            ELSE IF \E k \in handwritingKeywords : Occurs(k, toLowerCase(call.file.name))
                 THEN "handwriting" ELSE "mixed"

C17_Witness ==
    /\ posts = 1 /\ ~call.mode.present
    /\ call.file.name = name_Notes
    /\ sent.body.mode = "handwriting"
    /\ pc = "awaitGateway" /\ gatewayReq.prompt = "handwriting"

\* C18: the client sends a request to the OCR function only when the session
\* has an access token; without one invokeOcrProcess throws and sends nothing.
\* Every request sent carries the publishable key as gateway credential and
\* the session's access token in the body field userAccessToken.
C18_DualCredentials ==
    /\ posts > 0 =>
          /\ session.present /\ session.access_token # ""
          /\ sent.method = "POST"
          /\ sent.headers.apikey = anonKey
          /\ sent.headers.Authorization = <<"Bearer", anonKey>>
          /\ sent.body.userAccessToken = session.access_token
    /\ pc # "idle" => /\ posts > 0
                      /\ payload.userAccessToken = Str(session.access_token)
    /\ (epc = "settled" /\ (~session.present \/ session.access_token = "")) =>
          /\ posts = 0
          /\ sent = NoRequest
          /\ outcome.kind = "thrown"

C18_Witness ==
    /\ epc = "posted" /\ posts = 1
    /\ session.access_token = "jwt"
    /\ sent.body.userAccessToken = "jwt"
    /\ pc = "awaitAuth"

----------------------------------------------------------------------------
(* Properties of the page and the store, checked under PageSpec *)

HistoryIds == {history[i].id : i \in 1..Len(history)}

\* handleHistoryDelete returns in this step
DeleteReturned == pendingDelete.pending /\ ~pendingDelete'.pending

\* the catch block of run r ends in this step
CatchEnded(r) == runs[r].pc = "failing" /\ runs'[r].pc = "done"

\* C12: when handleHistoryDelete(id) returns without an error, the document
\* id and its OCR result are not in the store and no item of the history list
\* has that id (the error path leaves store and list as they were).
C12_DeleteRemoves ==
    [][DeleteReturned =>
          \/ UNCHANGED <<documents, ocr_results, history>>
          \/ /\ documents'[pendingDelete.id] \notin {"processing", "completed", "failed"}
             /\ ocr_results'[pendingDelete.id] = <<>>
             /\ \A i \in 1..Len(history') : history'[i].id # pendingDelete.id
      ]_pageVars

C12_Witness ==
    \E d \in DocIds :
        /\ documents[d] = "deleted"
        /\ ocr_results[d] = <<>>
        /\ d \notin HistoryIds
        /\ Len(statusWrites[d]) = 1
        /\ statusWrites[d][1].status = "completed"
        /\ ~pendingDelete.pending

\* C13: a document row is created with status "processing"; the client
\* writes its status at most once afterwards, to "completed" or to "failed";
\* a row that is "completed" or "failed" keeps that status until it is deleted.
C13_StatusLifecycle ==
    /\ [](\A d \in DocIds :
            /\ Len(statusWrites[d]) <= 1
            /\ \A i \in 1..Len(statusWrites[d]) :
                  statusWrites[d][i].status \in {"completed", "failed"})
    /\ [][\A d \in DocIds :
            /\ (documents[d] = "none" /\ documents'[d] # "none") =>
                  documents'[d] = "processing"
            /\ documents[d] \in {"completed", "failed"} =>
                  documents'[d] \in {documents[d], "deleted"}
            /\ documents[d] = "deleted" => documents'[d] = "deleted"
         ]_pageVars

C13_Witness ==
    \E d \in DocIds :
        /\ documents[d] = "failed"
        /\ Len(statusWrites[d]) = 1
        /\ \A r \in RunIds : runs[r].pc \in {"none", "done"}

\* C14, as stated, in its finite form: once the run of handleOCRProcessing
\* that created a document row has returned (nothing writes the row's status
\* afterwards), the row is "completed" or "failed", or it is deleted.
C14_AsStated ==
    \A r \in RunIds :
        (runs[r].pc = "done" /\ runs[r].doc # 0) =>
            documents[runs[r].doc] \in {"completed", "failed", "deleted"}

C16_AsStated ==
    /\ Cardinality({r \in RunIds : Unfinished(r)}) <= 1
    /\ \A d \in DocIds : \A i \in 1..Len(statusWrites[d]) :
          runs[statusWrites[d][i].run].doc = d

\* C20, as stated: when the catch block of a run whose document row exists
\* has run, the UI status is "error", the row's status is "failed", the row
\* has no ocr_results row and the history list is as it was.
C20_AsStated ==
    [][\A r \in RunIds :
          (CatchEnded(r) /\ documents[runs[r].doc] = "processing") =>
              /\ ocrStatus' = "error"
              /\ documents'[runs[r].doc] = "failed"
              /\ ocr_results'[runs[r].doc] = <<>>
              /\ history' = history
      ]_pageVars

----------------------------------------------------------------------------
(* Properties of the storage bucket, checked under StorageSpec *)

\* C19: every object of the bucket "documents" that a user's insert, select
\* or delete touches has that user's id as the first folder of its path.
C19_OwnPrefixOnly ==
    \A o \in lastOp.rows :
        o.bucket_id = "documents" =>
            /\ lastOp.uid # NULL
            /\ Len(o.name) >= 2
            /\ o.name[1] = lastOp.uid

C19_Witness ==
    /\ lastOp.op = "delete"
    /\ lastOp.rows # {}
    /\ \E o \in objects : o.name[1] # lastOp.uid


----------------------------------------------------------------------------
(* Further properties of the page and the store, checked under PageSpec *)

\* the try block of run r ends in this step
TryEnded(r) == runs[r].pc = "marking" /\ runs'[r].pc = "done"

\* C21: when the try block of a run ends (processDocument returned a
\* result), the item of the run's document, with the returned text, is the
\* first of the history list and the selected item, the UI status is
\* "complete" and the text shown is the returned text.
C21_SavedToHistory ==
    [][\A r \in RunIds :
          TryEnded(r) =>
              /\ history' # <<>>
              /\ history'[1] = Item(runs[r].doc, runs[r].text)
              /\ selectedHistoryId' = runs[r].doc
              /\ ocrStatus' = "complete"
              /\ extractedText' = runs[r].text
      ]_pageVars

C21_Witness ==
    /\ Len(history) = 2
    /\ history[1].id # history[2].id
    /\ selectedHistoryId = history[1].id
    /\ ocrStatus = "complete"
    /\ extractedText = history[1].extractedText
    /\ extractedText \in ResultTexts
    /\ history[2].extractedText \in ResultTexts \ {extractedText}
    /\ \A r \in RunIds : runs[r].pc = "done"

\* C23, as stated: every document row with status "completed" has an
\* ocr_results row.
C23_AsStated ==
    \A d \in DocIds : documents[d] = "completed" => ocr_results[d] # <<>>

\* C24, as stated: the status is one for which a main panel is rendered, and
\* with status "complete" the extracted text is not empty (the results panel
\* is rendered only then).
C24_AsStated ==
    /\ ocrStatus \in {"idle", "uploading", "processing", "error", "complete"}
    /\ ocrStatus = "complete" => extractedText # ""

\* C25, as stated: every item of the history list has the id of a document
\* row that exists in the store.
C25_AsStated == HistoryIds \subseteq Existing

\* C26, as stated: the history list holds at most 10 items and no two items
\* with the same id.
C26_AsStated ==
    /\ Len(history) <= FETCH_LIMIT
    /\ \A i, j \in 1..Len(history) : i # j => history[i].id # history[j].id

\* C29: when the store reports an error for the delete, the step in which
\* handleHistoryDelete returns leaves the history list, the selected id, the
\* extracted text and the UI status as they were.
C29_DeleteErrorLeavesUI ==
    [][(DeleteReturned /\ pendingDelete'.error) =>
          UNCHANGED <<history, selectedHistoryId, extractedText, ocrStatus>>
      ]_pageVars

C29_Witness ==
    /\ ~pendingDelete.pending /\ pendingDelete.error
    /\ history # <<>>
    /\ selectedHistoryId \in HistoryIds
    /\ ocrStatus = "complete"
    /\ HistoryIds \subseteq Existing

\* C30, as stated, for the run of handleOCRProcessing: when the catch block
\* has run (processDocument threw), the UI status is "error" and the row the
\* run created, if it is still in the store, has status "failed".
C30_AsStated ==
    [][\A r \in RunIds :
          CatchEnded(r) =>
              /\ ocrStatus' = "error"
              /\ documents'[runs[r].doc] \in {"failed", "deleted"}
      ]_pageVars

----------------------------------------------------------------------------
(* Further properties of the handler, checked under Spec *)

ErrorIs(message) == "error" \in DOMAIN resp.body /\ resp.body.error = message

FileTypeAbsentOrEmpty == ~payload.fileType.present \/ payload.fileType.value = <<>>

\* C22: the AI gateway is called only for a request that passed every check:
\* token present, accepted by the auth service, image data present, size and
\* type accepted. The checks run in this order: the auth service is asked
\* only with a token, and each 400 answer names the first check that failed.
\* A request answered with 400 or 401 made no gateway call.
C22_ChecksBeforeGateway ==
    /\ gatewayCalls >= 1 =>
          /\ PostWithBody /\ ~TokenAbsentOrEmpty /\ Authenticated
          /\ ~ImageAbsentOrEmpty /\ ~Over10MB /\ ~TypeNotListed
    /\ authCalls >= 1 => ~TokenAbsentOrEmpty
    /\ Answered =>
          /\ ErrorIs("No image data provided") => Authenticated
          /\ ErrorIs("File too large. Maximum size is 10MB") =>
                Authenticated /\ ~ImageAbsentOrEmpty
          /\ ErrorIs("Invalid file type. Allowed: PNG, JPEG, WebP, GIF, PDF") =>
                Authenticated /\ ~ImageAbsentOrEmpty /\ ~Over10MB
          /\ resp.status \in {400, 401} => gatewayCalls = 0

C22_Witness ==
    /\ pc = "awaitGateway" /\ gatewayCalls = 1 /\ authCalls = 1
    /\ payload.fileType.value = application_pdf
    /\ payload.imageBase64.length = 13981013

\* C27 as stated: an authenticated request with image data under the size
\* limit and an absent or empty fileType is dispatched to the AI gateway.
C27_AsStated ==
    (Authenticated /\ ~ImageAbsentOrEmpty /\ ~Over10MB /\ FileTypeAbsentOrEmpty) =>
        gatewayCalls = 1

\* C27: an authenticated request, handled with LOVABLE_API_KEY configured,
\* with image data under the size limit and an absent or empty fileType is
\* dispatched to the AI gateway, the image labelled image/png when
\* imageBase64 has no data-URL prefix.
C27_EmptyTypeDispatched ==
    (Authenticated /\ env.LOVABLE_API_KEY
        /\ ~ImageAbsentOrEmpty /\ ~Over10MB /\ FileTypeAbsentOrEmpty) =>
        /\ gatewayCalls = 1
        /\ ~(Answered /\ resp.status = 400)
        /\ ~payload.imageBase64.startsWithData =>
              gatewayReq.prefixAdded /\ gatewayReq.mimeType = image_png

C27_Witness ==
    /\ pc = "awaitGateway" /\ gatewayCalls = 1
    /\ payload.fileType.present /\ payload.fileType.value = <<>>
    /\ ~payload.imageBase64.startsWithData
    /\ gatewayReq.mimeType = image_png

----------------------------------------------------------------------------
(* Further properties of the client's OCR engine, checked under EngineSpec *)

\* C28, as stated: a request that processDocument sent is not answered with
\* the 400 of the type validation.
C28_AsStated ==
    (posts >= 1 /\ Answered) =>
        ~(resp.status = 400
            /\ ErrorIs("Invalid file type. Allowed: PNG, JPEG, WebP, GIF, PDF"))

\* for a file whose type is neither application/pdf nor starts with image/,
\* processDocument throws and sends no request (first half of C30)
UnsupportedTypeThrows ==
    (epc # "idle" /\ processorOf(call.file) = "unsupported") =>
        /\ epc = "settled"
        /\ outcome.kind = "thrown"
        /\ posts = 0 /\ sent = NoRequest /\ pc = "idle"

====
